---- MODULE Spec2Model ----
(***************************************************************************)
(* Model of the two example programs of cpp-mcp:                           *)
(*   - examples/network/simple_tcp_server.cpp  (SimpleTcpServer, main)     *)
(*   - examples/network/network_client_example.cpp (main)                  *)
(*                                                                         *)
(* A std::string of wire bytes is a sequence of lexical units: the newline *)
(* byte, or one JSON lexeme (a punctuation mark, a string literal, a       *)
(* number, a keyword), a run of white space, or a stray byte that begins   *)
(* no JSON lexeme.  find/substr/erase/append act on the units as they act  *)
(* on chars; json::parse and json::dump are a parser and a printer over    *)
(* the same units.                                                         *)
(***************************************************************************)
EXTENDS Integers, Sequences, FiniteSets, TLC

VARIABLES
    \* ---- SimpleTcpServer: main, start, stop, run, handle_client
    spc,          \* position of the server's main thread
    running_,     \* SimpleTcpServer::running_
    server_fd_,   \* SimpleTcpServer::server_fd_ ("none" is -1)
    conn,         \* per client: state of its connection / handle_client thread
    peer,         \* per client: the bytes the peer writes on its connection
    rcvd,         \* per client: how many of them recv has returned so far
    peerClosed,   \* per client: the peer has closed its end
    data_buffer,  \* per client: handle_client's data_buffer
    lines,        \* per client: the records passed to process_request, in order
    replies,      \* per client: what process_request returned for each of them
    wire,         \* per client: the bytes the socket has taken from send
    broken,       \* per client: a send on the connection has failed
    closes,       \* per client: how many times close(client_fd) was called
    \* ---- one call of process_request
    request_str,  \* the argument
    response,     \* the returned string
    called,       \* whether the call has returned
    \* ---- network_client_example main
    cpc,          \* position in main
    argv,         \* argv[1..]
    argi,         \* the loop variable i - 1 of the argument loop
    host,         \* host
    port,         \* port
    calls,        \* the stdio_client operations invoked so far, in order
    results,      \* what each of them did: returned a value or threw
    exitCode      \* the process's exit status ("none" while running)

srvVars == <<spc, running_, server_fd_, conn, peer, rcvd, peerClosed,
             data_buffer, lines, replies, wire, broken, closes>>
reqVars == <<request_str, response, called>>
cliVars == <<cpc, argv, argi, host, port, calls, results, exitCode>>
vars == <<srvVars, reqVars, cliVars>>

-----------------------------------------------------------------------------
(* Wire bytes *)

Lex(k, s, n) == [k |-> k, s |-> s, n |-> n]

NL == Lex("nl", "", 0)           \* '\n'
LBrace == Lex("{", "", 0)
RBrace == Lex("}", "", 0)
LBracket == Lex("[", "", 0)
RBracket == Lex("]", "", 0)
Colon == Lex(":", "", 0)
Comma == Lex(",", "", 0)
KwNull == Lex("null", "", 0)
KwTrue == Lex("true", "", 0)
KwFalse == Lex("false", "", 0)
Ws == Lex("ws", "", 0)           \* a run of ' ', '\t', '\r'
Stray == Lex("stray", "", 0)     \* a byte that begins no JSON lexeme
StrLit(s) == Lex("str", s, 0)    \* "s"
NumLit(n) == Lex("num", "", n)   \* an integer literal

-----------------------------------------------------------------------------
(* nlohmann::json values: one shape for every type, so that any two compare *)

EmptyMap == [k \in {} |-> 0]

J(t, s, n, a, o) == [t |-> t, s |-> s, n |-> n, a |-> a, o |-> o]

JNull == J("null", "", 0, <<>>, EmptyMap)          \* json()
JBool(b) == J("boolean", "", IF b THEN 1 ELSE 0, <<>>, EmptyMap)
JInt(n) == J("number", "", n, <<>>, EmptyMap)
JStr(s) == J("string", s, 0, <<>>, EmptyMap)
JArr(a) == J("array", "", 0, a, EmptyMap)          \* json::array(...)
JObj(o) == J("object", "", 0, <<>>, o)             \* json::object(...)

\* One key/value of an initializer list, and the object of a list of them.
KV(k, v) == [k |-> k, v |-> v]

RECURSIVE MapOf(_)
MapOf(kvs) ==
    IF kvs = <<>> THEN EmptyMap
    ELSE LET init == MapOf(SubSeq(kvs, 1, Len(kvs) - 1))
             last == kvs[Len(kvs)]
         IN  [k \in DOMAIN init \cup {last.k} |->
                 IF k = last.k THEN last.v ELSE init[k]]

Object(kvs) == JObj(MapOf(kvs))

\* std::map order of the keys (bytewise order of the strings the model uses).
KeyOrder ==
    << "arguments", "capabilities", "clientInfo", "code", "content",
       "description", "error", "extra", "id", "inputSchema", "jsonrpc",
       "message", "method", "name", "params", "properties",
       "protocolVersion", "required", "resources", "result", "serverInfo",
       "text", "tools", "type", "uri", "version" >>

Keys(j) == SelectSeq(KeyOrder, LAMBDA k : k \in DOMAIN j.o)

-----------------------------------------------------------------------------
(* json::parse : a recursive descent over the lexemes.  White space between *)
(* lexemes is skipped; anything but exactly one JSON value is a parse_error. *)

ParseOk(v, rest) == [ok |-> TRUE, v |-> v, rest |-> rest]
ParseFail == [ok |-> FALSE, v |-> JNull, rest |-> <<>>]

RECURSIVE ParseValue(_), ParseElements(_, _), ParseMembers(_, _)

ParseValue(ts) ==
    IF ts = <<>> THEN ParseFail
    ELSE LET h == Head(ts)
             tl == Tail(ts)
         IN  CASE h.k = "str" -> ParseOk(JStr(h.s), tl)
               [] h.k = "num" -> ParseOk(JInt(h.n), tl)
               [] h.k = "null" -> ParseOk(JNull, tl)
               [] h.k = "true" -> ParseOk(JBool(TRUE), tl)
               [] h.k = "false" -> ParseOk(JBool(FALSE), tl)
               [] h.k = "[" ->
                    IF tl # <<>> /\ Head(tl).k = "]"
                    THEN ParseOk(JArr(<<>>), Tail(tl))
                    ELSE ParseElements(tl, <<>>)
               [] h.k = "{" ->
                    IF tl # <<>> /\ Head(tl).k = "}"
                    THEN ParseOk(JObj(EmptyMap), Tail(tl))
                    ELSE ParseMembers(tl, EmptyMap)
               [] OTHER -> ParseFail

ParseElements(ts, acc) ==
    LET r == ParseValue(ts)
    IN  IF ~r.ok \/ r.rest = <<>> THEN ParseFail
        ELSE IF Head(r.rest).k = ","
             THEN ParseElements(Tail(r.rest), Append(acc, r.v))
        ELSE IF Head(r.rest).k = "]"
             THEN ParseOk(JArr(Append(acc, r.v)), Tail(r.rest))
        ELSE ParseFail

\* A repeated key keeps its last value.
ParseMembers(ts, acc) ==
    IF Len(ts) < 2 \/ ts[1].k # "str" \/ ts[2].k # ":" THEN ParseFail
    ELSE LET key == ts[1].s
             r == ParseValue(SubSeq(ts, 3, Len(ts)))
             put == [k \in DOMAIN acc \cup {key} |->
                        IF k = key THEN r.v ELSE acc[k]]
         IN  IF ~r.ok \/ r.rest = <<>> THEN ParseFail
             ELSE IF Head(r.rest).k = ","
                  THEN ParseMembers(Tail(r.rest), put)
             ELSE IF Head(r.rest).k = "}"
                  THEN ParseOk(JObj(put), Tail(r.rest))
             ELSE ParseFail

\* json::parse(str): the value, or the parse_error it throws.
ParseErrorWhat == "[json.exception.parse_error.101] parse error"

Parse(str) ==
    LET r == ParseValue(SelectSeq(str, LAMBDA b : b.k # "ws"))
    IN  IF r.ok /\ r.rest = <<>>
        THEN [thrown |-> FALSE, v |-> r.v, what |-> ""]
        ELSE [thrown |-> TRUE, v |-> JNull, what |-> ParseErrorWhat]

-----------------------------------------------------------------------------
(* json::dump() : compact, object keys in std::map order *)

RECURSIVE Dump(_), DumpElements(_, _), DumpMembers(_, _)

Dump(j) ==
    CASE j.t = "null" -> <<KwNull>>
      [] j.t = "boolean" -> IF j.n = 1 THEN <<KwTrue>> ELSE <<KwFalse>>
      [] j.t = "number" -> <<NumLit(j.n)>>
      [] j.t = "string" -> <<StrLit(j.s)>>
      [] j.t = "array" -> <<LBracket>> \o DumpElements(j.a, 1) \o <<RBracket>>
      [] j.t = "object" -> <<LBrace>> \o DumpMembers(j, 1) \o <<RBrace>>

DumpElements(a, i) ==
    IF i > Len(a) THEN <<>>
    ELSE (IF i > 1 THEN <<Comma>> ELSE <<>>) \o Dump(a[i])
         \o DumpElements(a, i + 1)

DumpMembers(j, i) ==
    IF i > Len(Keys(j)) THEN <<>>
    ELSE (IF i > 1 THEN <<Comma>> ELSE <<>>)
         \o <<StrLit(Keys(j)[i]), Colon>> \o Dump(j.o[Keys(j)[i]])
         \o DumpMembers(j, i + 1)

-----------------------------------------------------------------------------
(* basic_json members used by process_request *)

\* What a call does: returns v, or throws an exception whose what() is what.
Ret(v) == [thrown |-> FALSE, v |-> v, what |-> ""]
Throw(what) == [thrown |-> TRUE, v |-> JNull, what |-> what]

\* j.contains(key): false for every j that is not an object.
Contains(j, key) == j.t = "object" /\ key \in DOMAIN j.o

\* j.value(key, default) with a json default: a copy of the member, of any type.
ValueJson(j, key, default) ==
    IF j.t # "object"
    THEN Throw("[json.exception.type_error.306] cannot use value() with " \o j.t)
    ELSE IF key \in DOMAIN j.o THEN Ret(j.o[key])
    ELSE Ret(default)

\* j.value(key, "") : the member converted to std::string.
ValueString(j, key, default) ==
    IF j.t # "object"
    THEN Throw("[json.exception.type_error.306] cannot use value() with " \o j.t)
    ELSE IF key \in DOMAIN j.o
         THEN IF j.o[key].t = "string" THEN Ret(j.o[key])
              ELSE Throw("[json.exception.type_error.302] type must be string, but is "
                         \o j.o[key].t)
    ELSE Ret(JStr(default))

\* j[key] = v on an object.
Set(j, key, v) ==
    JObj([k \in DOMAIN j.o \cup {key} |-> IF k = key THEN v ELSE j.o[k]])

-----------------------------------------------------------------------------
(* SimpleTcpServer::process_request *)

InitializeResult ==
    Object(<< KV("protocolVersion", JStr("2024-11-05")),
              KV("capabilities", Object(<< KV("tools", JObj(EmptyMap)),
                                           KV("resources", JObj(EmptyMap)) >>)),
              KV("serverInfo", Object(<< KV("name", JStr("SimpleTcpServer")),
                                         KV("version", JStr("1.0.0")) >>)) >>)

EchoTool ==
    Object(<< KV("name", JStr("echo")),
              KV("description", JStr("Echo the input text")),
              KV("inputSchema", Object(<<
                  KV("type", JStr("object")),
                  KV("properties", Object(<<
                      KV("text", Object(<< KV("type", JStr("string")),
                                           KV("description", JStr("Text to echo")) >>)) >>)),
                  KV("required", JArr(<<JStr("text")>>)) >>)) >>)

TimeTool ==
    Object(<< KV("name", JStr("time")),
              KV("description", JStr("Get current time")),
              KV("inputSchema", Object(<< KV("type", JStr("object")),
                                          KV("properties", JObj(EmptyMap)) >>)) >>)

ToolsListResult == Object(<< KV("tools", JArr(<<EchoTool, TimeTool>>)) >>)

\* TextContent with the text itself as the content (for C13).
TextContentBare(text) == Object(<< KV("content", JStr(text)) >>)

TextContent(text) ==
    Object(<< KV("content",
                 JArr(<< Object(<< KV("type", JStr("text")),
                                   KV("text", JStr(text)) >>) >>)) >>)

ResourcesListResult == Object(<< KV("resources", JArr(<<>>)) >>)

MethodNotFoundCode == -32601
ParseErrorCode == -32700

MethodNotFound(name) ==
    Object(<< KV("code", JInt(MethodNotFoundCode)),
              KV("message", JStr("Method not found: " \o name)) >>)

\* How the try block ends: return of a string, or an exception.
Return(str) == [thrown |-> FALSE, ret |-> str, what |-> ""]
Raise(what) == [thrown |-> TRUE, ret |-> <<>>, what |-> what]

\* The tools/call branch; now is what std::ctime gives for the current time.
ToolsCall(params, resp, now) ==
    LET tn == ValueString(params, "name", "")
        ar == ValueJson(params, "arguments", JObj(EmptyMap))
        tool_name == tn.v.s
        arguments == ar.v
        tx == ValueString(arguments, "text", "")
    IN  IF tn.thrown THEN Raise(tn.what)
        ELSE IF ar.thrown THEN Raise(ar.what)
        ELSE IF tool_name = "echo"
             THEN IF tx.thrown THEN Raise(tx.what)
                  ELSE Return(Dump(Set(resp, "result",
                                       TextContent("Echo: " \o tx.v.s))))
        ELSE IF tool_name = "time"
             THEN Return(Dump(Set(resp, "result", TextContent(now))))
        ELSE Return(Dump(Set(resp, "error", MethodNotFound(tool_name))))

\* The if/else chain on method.
Dispatch(method, params, resp, now) ==
    IF method = "initialize" THEN Return(Dump(Set(resp, "result", InitializeResult)))
    ELSE IF method = "initialized" THEN Return(<<>>)
    ELSE IF method = "ping" THEN Return(Dump(Set(resp, "result", JObj(EmptyMap))))
    ELSE IF method = "tools/list" THEN Return(Dump(Set(resp, "result", ToolsListResult)))
    ELSE IF method = "tools/call" THEN ToolsCall(params, resp, now)
    ELSE IF method = "resources/list"
         THEN Return(Dump(Set(resp, "result", ResourcesListResult)))
    ELSE Return(Dump(Set(resp, "error", MethodNotFound(method))))

\* The body of the try block.
TryBlock(request_str_, now) ==
    LET pr == Parse(request_str_)
        request == pr.v
        me == ValueString(request, "method", "")
        pa == ValueJson(request, "params", JObj(EmptyMap))
        idv == ValueJson(request, "id", JNull)
        resp == Object(<< KV("jsonrpc", JStr("2.0")), KV("id", idv.v) >>)
    IN  IF pr.thrown THEN Raise(pr.what)
        ELSE IF ~Contains(request, "jsonrpc") \/ request.o["jsonrpc"] # JStr("2.0")
             THEN Return(<<>>)
        ELSE IF me.thrown THEN Raise(me.what)
        ELSE IF pa.thrown THEN Raise(pa.what)
        ELSE IF idv.thrown THEN Raise(idv.what)
        ELSE Dispatch(me.v.s, pa.v, resp, now)

\* CatchBlock answering with the code of an invalid request (for C7).
CatchBlockInvalidRequest(what) ==
    Dump(Object(<< KV("jsonrpc", JStr("2.0")),
                   KV("id", JNull),
                   KV("error", Object(<< KV("code", JInt(-32600)),
                                         KV("message", JStr("Parse error: " \o what)) >>)) >>))

\* catch (const std::exception& e)
CatchBlock(what) ==
    Dump(Object(<< KV("jsonrpc", JStr("2.0")),
                   KV("id", JNull),
                   KV("error", Object(<< KV("code", JInt(ParseErrorCode)),
                                         KV("message", JStr("Parse error: " \o what)) >>)) >>))

process_request(request_str_, now) ==
    LET t == TryBlock(request_str_, now)
    IN  IF t.thrown THEN CatchBlock(t.what) ELSE t.ret

\* What std::ctime can return.
CTimes == { "Thu Jan  1 00:00:00 1970\n", "Thu Nov  5 12:00:00 2026\n" }

-----------------------------------------------------------------------------
(* The records a peer may write: texts built member by member *)

Member(k, valueText) == <<StrLit(k), Colon>> \o valueText

RECURSIVE JoinComma(_)
JoinComma(texts) ==
    IF texts = <<>> THEN <<>>
    ELSE IF Len(texts) = 1 THEN texts[1]
    ELSE texts[1] \o <<Comma>> \o JoinComma(Tail(texts))

ObjText(members) == <<LBrace>> \o JoinComma(members) \o <<RBrace>>

\* Each option is the list of members it contributes (none, or one).
JsonrpcOpts ==
    { <<>>,
      <<Member("jsonrpc", <<StrLit("2.0")>>)>>,
      <<Member("jsonrpc", <<StrLit("1.0")>>)>>,
      <<Member("jsonrpc", <<NumLit(2)>>)>> }

IdOpts ==
    { <<>>,
      <<Member("id", <<NumLit(1)>>)>>,
      <<Member("id", <<StrLit("abc")>>)>>,
      <<Member("id", <<KwNull>>)>> }

MethodNames ==
    { "initialize", "initialized", "ping", "tools/list", "tools/call",
      "resources/list", "resources/read", "nope", "notifications/cancelled" }

MethodOpts ==
    { <<>>, <<Member("method", <<NumLit(7)>>)>> }
    \cup { <<Member("method", <<StrLit(m)>>)>> : m \in MethodNames }

ArgumentsOpts ==
    { <<>>,
      <<Member("arguments", ObjText(<<>>))>>,
      <<Member("arguments", ObjText(<<Member("text", <<StrLit("Hello")>>)>>))>>,
      <<Member("arguments", ObjText(<<Member("text", <<NumLit(5)>>)>>))>>,
      <<Member("arguments", <<StrLit("Hello")>>)>> }

ToolNameOpts ==
    { <<>>,
      <<Member("name", <<StrLit("echo")>>)>>,
      <<Member("name", <<StrLit("time")>>)>>,
      <<Member("name", <<StrLit("add")>>)>>,
      <<Member("name", <<NumLit(3)>>)>> }

ParamsOpts ==
    { <<>>,
      <<Member("params", <<StrLit("x")>>)>>,
      <<Member("params", <<LBracket, RBracket>>)>>,
      <<Member("params", <<KwNull>>)>> }
    \cup { <<Member("params", ObjText(n \o a))>> :
             n \in ToolNameOpts, a \in ArgumentsOpts }

OutcomeOpts ==
    { <<>>,
      <<Member("result", ObjText(<<>>))>>,
      <<Member("error", ObjText(<< Member("code", <<NumLit(-1)>>),
                                   Member("message", <<StrLit("x")>>) >>))>> }

\* Params go with a method; result and error go with none.
RecordsOf(j, i, m) ==
    IF m = <<>>
    THEN { ObjText(j \o i \o o) : o \in OutcomeOpts }
    ELSE { ObjText(j \o i \o m \o p) : p \in ParamsOpts }

ObjectRecords ==
    UNION { RecordsOf(j, i, m) :
              j \in JsonrpcOpts, i \in IdOpts, m \in MethodOpts }

PingText == ObjText(<< Member("jsonrpc", <<StrLit("2.0")>>),
                       Member("id", <<NumLit(2)>>),
                       Member("method", <<StrLit("ping")>>) >>)

OtherRecords ==
    { <<Stray, Ws, Stray>>,                  \* not json
      <<Stray>>,
      <<Ws>>,
      <<LBrace>>,
      <<RBracket>>,
      <<LBrace, StrLit("jsonrpc"), RBrace>>,
      <<LBrace, StrLit("jsonrpc"), Colon, StrLit("2.0"), Comma, RBrace>>,
      PingText \o PingText,                  \* two values in one record
      PingText \o <<Stray>>,
      <<Ws>> \o PingText \o <<Ws>>,          \* white space around a value
      <<LBrace, Ws, StrLit("jsonrpc"), Ws, Colon, StrLit("2.0"), Comma,
        StrLit("id"), Colon, Ws, NumLit(4), Comma, StrLit("method"), Colon,
        StrLit("ping"), Ws, RBrace>>,
      \* a repeated key
      ObjText(<< Member("jsonrpc", <<StrLit("2.0")>>),
                 Member("id", <<NumLit(1)>>),
                 Member("method", <<StrLit("nope")>>),
                 Member("id", <<NumLit(9)>>) >>),
      <<LBracket, RBracket>>,
      <<LBracket>> \o PingText \o <<RBracket>>,          \* a batch
      <<LBracket>> \o PingText \o <<Comma>> \o PingText \o <<RBracket>>,
      <<NumLit(5)>>, <<StrLit("2.0")>>, <<KwNull>>, <<KwTrue>>, <<KwFalse>> }

Requests == ObjectRecords \cup OtherRecords

-----------------------------------------------------------------------------
(* One call of process_request on one record *)

IdleServer ==
    /\ spc = "none" /\ running_ = FALSE /\ server_fd_ = "none"
    /\ conn = <<>> /\ peer = <<>> /\ rcvd = <<>> /\ peerClosed = <<>>
    /\ data_buffer = <<>> /\ lines = <<>> /\ replies = <<>> /\ wire = <<>>
    /\ broken = <<>> /\ closes = <<>>

IdleRequest == request_str = <<>> /\ response = <<>> /\ called = FALSE

IdleClient ==
    /\ cpc = "none" /\ argv = <<>> /\ argi = 0 /\ host = "" /\ port = 0
    /\ calls = <<>> /\ results = <<>> /\ exitCode = "none"

InitRequest ==
    /\ request_str \in Requests
    /\ response = <<>>
    /\ called = FALSE
    /\ IdleServer
    /\ IdleClient

CallProcessRequest ==
    /\ ~called
    /\ \E now \in CTimes : response' = process_request(request_str, now)
    /\ called' = TRUE
    /\ UNCHANGED <<request_str, srvVars, cliVars>>

NextRequest == CallProcessRequest

SpecRequest == InitRequest /\ [][NextRequest]_vars

-----------------------------------------------------------------------------
(* SimpleTcpServer: main, start, stop, run and the handle_client threads *)

NClients == 2           \* clients that may connect
MaxShort == 2           \* longest short count of a failing send that is explored
RecvMax == 4095         \* sizeof(buffer) - 1

Clients == 1..NClients

Min(a, b) == IF a < b THEN a ELSE b

\* data_buffer.find('\n'): the position of the first newline, 0 for npos.
RECURSIVE FindFrom(_, _)
FindFrom(buf, i) ==
    IF i > Len(buf) THEN 0
    ELSE IF buf[i] = NL THEN i
    ELSE FindFrom(buf, i + 1)

Find(buf) == FindFrom(buf, 1)

\* data_buffer.substr(0, pos), pos counted from 1 here.
Substr(buf, pos) == SubSeq(buf, 1, pos - 1)

\* Erase dropping the whole buffer, as data_buffer.clear() would (for C10).
EraseWholeBuffer(buf, pos) == <<>>

\* data_buffer.erase(0, pos + 1)
Erase(buf, pos) == SubSeq(buf, pos + 1, Len(buf))

\* After leaving the loop as soon as no record is left to process (for C11).
AfterLeaving(buf) == IF Find(buf) # 0 THEN "lines" ELSE "left"

\* Where handle_client is after a step that leaves buf in data_buffer: in the
\* inner while loop as long as a newline is found, else back at recv.
After(buf) == IF Find(buf) # 0 THEN "lines" ELSE "recv"

\* main: server.start() fails (socket, setsockopt, bind or listen), main
\* returns 1 and the destructor runs stop().
StartFails ==
    /\ spc = "start"
    /\ spc' = "exit"
    /\ running_' = FALSE
    /\ server_fd_' = "none"
    /\ UNCHANGED <<conn, peer, rcvd, peerClosed, data_buffer, lines, replies,
                   wire, broken, closes, reqVars, cliVars>>

\* main: server.start() succeeds and main enters run().
Start ==
    /\ spc = "start"
    /\ spc' = "run"
    /\ running_' = TRUE
    /\ server_fd_' = "listening"
    /\ UNCHANGED <<conn, peer, rcvd, peerClosed, data_buffer, lines, replies,
                   wire, broken, closes, reqVars, cliVars>>

\* run: one turn of while (running_): accept fails and the loop continues, or
\* accept returns the connection of client c and a detached thread runs
\* handle_client on it.
Run(c) ==
    /\ spc = "run"
    /\ running_
    /\ \/ UNCHANGED conn
       \/ /\ conn[c] = "pending"
          /\ conn' = [conn EXCEPT ![c] = "recv"]
    /\ UNCHANGED <<spc, running_, server_fd_, peer, rcvd, peerClosed,
                   data_buffer, lines, replies, wire, broken, closes, reqVars,
                   cliVars>>

\* The peer of client c closes its end of the connection.
PeerCloses(c) ==
    /\ spc = "run"
    /\ conn[c] \in {"pending", "recv", "lines"}
    /\ ~peerClosed[c]
    /\ peerClosed' = [peerClosed EXCEPT ![c] = TRUE]
    /\ UNCHANGED <<spc, running_, server_fd_, conn, peer, rcvd, data_buffer,
                   lines, replies, wire, broken, closes, reqVars, cliVars>>

\* handle_client: while (running_), recv returns n > 0 bytes, which are
\* appended to data_buffer.
Recv(c) ==
    /\ spc = "run"
    /\ conn[c] = "recv"
    /\ running_
    /\ \E n \in 1..Min(RecvMax, Len(peer[c]) - rcvd[c]) :
          /\ rcvd' = [rcvd EXCEPT ![c] = @ + n]
          /\ data_buffer' = [data_buffer EXCEPT
                ![c] = @ \o SubSeq(peer[c], rcvd[c] + 1, rcvd[c] + n)]
    /\ conn' = [conn EXCEPT ![c] = After(data_buffer'[c])]
    /\ UNCHANGED <<spc, running_, server_fd_, peer, peerClosed, lines, replies,
                   wire, broken, closes, reqVars, cliVars>>

\* handle_client: running_ is false, or recv returns <= 0 (the peer has closed:
\* end of stream, or a reset that drops what was not yet received): the loop is
\* left.
LeaveLoop(c) ==
    /\ spc = "run"
    /\ conn[c] = "recv"
    /\ ~running_ \/ peerClosed[c]
    /\ conn' = [conn EXCEPT ![c] = "left"]
    /\ UNCHANGED <<spc, running_, server_fd_, peer, rcvd, peerClosed,
                   data_buffer, lines, replies, wire, broken, closes, reqVars,
                   cliVars>>

\* send(client_fd, record): how many bytes of the record the socket takes,
\* whether the call fails, and whether the process survives.  The return
\* value is not looked at.  On a sound connection the socket takes all of it.
\* Once the peer has closed, the call may also fail after a few bytes; after a
\* failed send every further one fails and takes nothing.  A send that fails
\* with EPIPE raises SIGPIPE, which is neither ignored nor handled: the
\* process ends.
SendOutcomes(c, record) ==
    IF broken[c]
    THEN { [taken |-> 0, failed |-> TRUE, killed |-> FALSE],
           [taken |-> 0, failed |-> TRUE, killed |-> TRUE] }
    ELSE { [taken |-> Len(record), failed |-> FALSE, killed |-> FALSE] }
         \cup (IF peerClosed[c]
               THEN { [taken |-> k, failed |-> TRUE, killed |-> FALSE] :
                        k \in 0..Min(MaxShort, Len(record) - 1) }
                    \cup { [taken |-> 0, failed |-> TRUE, killed |-> TRUE] }
               ELSE {})

\* The response going out with no terminator (for C15).
AppendNothing(str) == str

\* response += "\n"
AppendNewline(str) == str \o <<NL>>

\* handle_client: one turn of the inner while loop: the record up to the first
\* newline is cut off data_buffer; if it is not empty it goes to
\* process_request, and a non-empty response is sent with "\n" appended.
ProcessLine(c) ==
    /\ spc = "run"
    /\ conn[c] = "lines"
    /\ LET pos == Find(data_buffer[c])
           line == Substr(data_buffer[c], pos)
           rest == Erase(data_buffer[c], pos)
       IN  /\ data_buffer' = [data_buffer EXCEPT ![c] = rest]
           /\ conn' = [conn EXCEPT ![c] = After(rest)]
           /\ IF line = <<>>
              THEN UNCHANGED <<spc, lines, replies, wire, broken>>
              ELSE \E now \in CTimes :
                     LET resp == process_request(line, now)
                     IN  /\ lines' = [lines EXCEPT ![c] = Append(@, line)]
                         /\ replies' = [replies EXCEPT ![c] = Append(@, resp)]
                         /\ IF resp = <<>>
                            THEN UNCHANGED <<spc, wire, broken>>
                            ELSE \E o \in SendOutcomes(c, AppendNewline(resp)) :
                                   /\ wire' = [wire EXCEPT ![c] =
                                         @ \o SubSeq(AppendNewline(resp), 1, o.taken)]
                                   /\ broken' = [broken EXCEPT ![c] = o.failed]
                                   /\ spc' = IF o.killed THEN "killed" ELSE spc
    /\ UNCHANGED <<running_, server_fd_, peer, rcvd, peerClosed, closes,
                   reqVars, cliVars>>

\* handle_client: after the loop, close(client_fd) and the thread ends.
CloseClient(c) ==
    /\ spc = "run"
    /\ conn[c] = "left"
    /\ conn' = [conn EXCEPT ![c] = "closed"]
    /\ closes' = [closes EXCEPT ![c] = @ + 1]
    /\ UNCHANGED <<spc, running_, server_fd_, peer, rcvd, peerClosed,
                   data_buffer, lines, replies, wire, broken, reqVars, cliVars>>

NextServer ==
    \/ StartFails
    \/ Start
    \/ \E c \in Clients : Run(c)
    \/ \E c \in Clients : PeerCloses(c)
    \/ \E c \in Clients : Recv(c)
    \/ \E c \in Clients : LeaveLoop(c)
    \/ \E c \in Clients : ProcessLine(c)
    \/ \E c \in Clients : CloseClient(c)

\* The state after SimpleTcpServer server(port), with the clients of `who`
\* about to connect and write `streams`.
InitServer(who, streams) ==
    /\ spc = "start"
    /\ running_ = FALSE
    /\ server_fd_ = "none"
    /\ conn = [c \in Clients |-> IF c \in who THEN "pending" ELSE "absent"]
    /\ peer = streams
    /\ rcvd = [c \in Clients |-> 0]
    /\ peerClosed = [c \in Clients |-> FALSE]
    /\ data_buffer = [c \in Clients |-> <<>>]
    /\ lines = [c \in Clients |-> <<>>]
    /\ replies = [c \in Clients |-> <<>>]
    /\ wire = [c \in Clients |-> <<>>]
    /\ broken = [c \in Clients |-> FALSE]
    /\ closes = [c \in Clients |-> 0]
    /\ IdleRequest
    /\ IdleClient

-----------------------------------------------------------------------------
(* The server's specifications: what the clients write *)

MaxStream == 6          \* longest byte stream of SpecFraming
MaxRecords == 2         \* most records in a stream of SpecSession

\* Framing: one client writes any stream of newlines, stray bytes and numbers.
FramingBytes == { NL, Stray, NumLit(5) }

FramingStreams == UNION { [1..k -> FramingBytes] : k \in 0..MaxStream }

InitFraming ==
    \E s \in FramingStreams :
        InitServer({1}, [c \in Clients |-> IF c = 1 THEN s ELSE <<>>])

SpecFraming == InitFraming /\ [][NextServer]_vars

\* A session: one client writes up to MaxRecords records, each with its "\n".
RequestText(id, method, params) ==
    ObjText(<< Member("jsonrpc", <<StrLit("2.0")>>) >>
            \o id \o << Member("method", <<StrLit(method)>>) >> \o params)

SessionRecords ==
    { RequestText(<<Member("id", <<NumLit(1)>>)>>, "initialize", <<>>),
      RequestText(<<>>, "initialized", <<>>),
      RequestText(<<Member("id", <<NumLit(2)>>)>>, "ping", <<>>),
      RequestText(<<Member("id", <<NumLit(3)>>)>>, "tools/call",
                  <<Member("params", <<StrLit("x")>>)>>),
      RequestText(<<Member("id", <<NumLit(4)>>)>>, "nope", <<>>),
      ObjText(<<Member("id", <<NumLit(5)>>)>>),
      <<Stray>> }

RECURSIVE StreamsOf(_, _)
StreamsOf(records, n) ==
    IF n = 0 THEN { <<>> }
    ELSE LET shorter == StreamsOf(records, n - 1)
         IN  shorter \cup { s \o r \o <<NL>> : s \in shorter, r \in records }

InitSession ==
    \E s \in StreamsOf(SessionRecords, MaxRecords) :
        InitServer({1}, [c \in Clients |-> IF c = 1 THEN s ELSE <<>>])

SpecSession == InitSession /\ [][NextServer]_vars

\* Several clients at once, each writing one of a few short streams.
ConcurrentStreams ==
    { <<Stray, NL>>,
      <<NumLit(5), NL, Stray, NL>> }

Init ==
    \E streams \in [Clients -> ConcurrentStreams] : InitServer(Clients, streams)

Spec == Init /\ [][NextServer]_vars

-----------------------------------------------------------------------------
(* network_client_example: main *)

MaxArgs == 2            \* most command line arguments after argv[0]

ArgWords == { "--help", "-h", "--host", "-p", "--port", "8080", "example.org" }

ArgLists == UNION { [1..k -> ArgWords] : k \in 0..MaxArgs }

\* std::stoi: the number a word starts with, or std::invalid_argument.
Stoi(word) ==
    IF word = "8080" THEN [thrown |-> FALSE, v |-> 8080]
    ELSE [thrown |-> TRUE, v |-> 0]

\* What the stdio_client operations can give back to main.  Each of them may
\* also throw a std::exception.
ToolOf(name) == Object(<< KV("name", JStr(name)), KV("description", JStr("")) >>)

ToolLists ==
    { JArr(<<>>),
      JArr(<<ToolOf("echo"), ToolOf("time")>>),
      JArr(<<ToolOf("time")>>),
      JArr(<<ToolOf("greeting")>>) }

ResourceLists ==
    { Object(<< KV("resources", JArr(<<>>)) >>),
      Object(<< KV("resources",
                   JArr(<< Object(<< KV("uri", JStr("file:///a")) >>) >>)) >>),
      Object(<< KV("resources",
                   JArr(<< Object(<< KV("name", JStr("a")) >>) >>)) >>),
      Object(<< KV("resources",
                   JArr(<< Object(<< KV("uri", JInt(5)) >>) >>)) >>),
      Object(<< KV("resources", JStr("none")) >>),
      JObj(EmptyMap) }

Call(op, arg) == [op |-> op, arg |-> arg]
Returned(v) == [threw |-> FALSE, value |-> v]
Threw == [threw |-> TRUE, value |-> JNull]

\* return status from main
Exit(status) == cpc' = "done" /\ exitCode' = status

\* One call of a client operation and what it does.
Invoke(op, arg, outcome) ==
    /\ calls' = Append(calls, Call(op, arg))
    /\ results' = Append(results, outcome)

LastValue == results[Len(results)].value

InitClient ==
    /\ cpc = "args"
    /\ argv \in ArgLists
    /\ argi = 1
    /\ host = "localhost"
    /\ port = 8080
    /\ calls = <<>>
    /\ results = <<>>
    /\ exitCode = "running"
    /\ IdleServer
    /\ IdleRequest

\* One turn of the argument loop.  std::stoi is called outside the try block:
\* when it throws, nothing catches and std::terminate ends the process.
ParseArg ==
    /\ cpc = "args"
    /\ argi <= Len(argv)
    /\ LET arg == argv[argi]
           more == argi + 1 <= Len(argv)
       IN  IF arg = "--help"
           THEN Exit("0") /\ UNCHANGED <<argi, host, port>>
           ELSE IF arg \in {"-h", "--host"} /\ more
           THEN /\ host' = argv[argi + 1]
                /\ argi' = argi + 2
                /\ UNCHANGED <<cpc, port, exitCode>>
           ELSE IF arg \in {"-p", "--port"} /\ more
           THEN IF Stoi(argv[argi + 1]).thrown
                THEN Exit("terminate") /\ UNCHANGED <<argi, host, port>>
                ELSE /\ port' = Stoi(argv[argi + 1]).v
                     /\ argi' = argi + 2
                     /\ UNCHANGED <<cpc, host, exitCode>>
           ELSE Exit("1") /\ UNCHANGED <<argi, host, port>>
    /\ UNCHANGED <<argv, calls, results, srvVars, reqVars>>

\* The loop is over: stdio_client client(host, port).  An exception of the
\* constructor is caught at the end of main.
Construct ==
    /\ cpc = "args"
    /\ argi > Len(argv)
    /\ \/ /\ Invoke("stdio_client", JArr(<<JStr(host), JInt(port)>>), Returned(JNull))
          /\ cpc' = "initialize"
          /\ UNCHANGED exitCode
       \/ /\ Invoke("stdio_client", JArr(<<JStr(host), JInt(port)>>), Threw)
          /\ Exit("1")
    /\ UNCHANGED <<argv, argi, host, port, srvVars, reqVars>>

\* Initialize going on to ping whatever initialize returned (for C5).
InitializeIgnored ==
    /\ cpc = "initialize"
    /\ \E outcome \in {Returned(JBool(TRUE)), Returned(JBool(FALSE)), Threw} :
          /\ Invoke("initialize", JNull, outcome)
          /\ IF outcome.threw
             THEN Exit("1")
             ELSE cpc' = "ping" /\ UNCHANGED exitCode
    /\ UNCHANGED <<argv, argi, host, port, srvVars, reqVars>>

\* client.initialize("NetworkClientExample", "1.0.0")
Initialize ==
    /\ cpc = "initialize"
    /\ \E outcome \in {Returned(JBool(TRUE)), Returned(JBool(FALSE)), Threw} :
          /\ Invoke("initialize", JNull, outcome)
          /\ IF outcome = Returned(JBool(TRUE))
             THEN cpc' = "ping" /\ UNCHANGED exitCode
             ELSE Exit("1")
    /\ UNCHANGED <<argv, argi, host, port, srvVars, reqVars>>

\* client.ping(): an exception leaves the outer try block.
Ping ==
    /\ cpc = "ping"
    /\ \E outcome \in {Returned(JBool(TRUE)), Returned(JBool(FALSE)), Threw} :
          /\ Invoke("ping", JNull, outcome)
          /\ IF outcome.threw
             THEN Exit("1")
             ELSE cpc' = "get_server_capabilities" /\ UNCHANGED exitCode
    /\ UNCHANGED <<argv, argi, host, port, srvVars, reqVars>>

\* GetServerCapabilities without a try block of its own (for C20).
GetServerCapabilitiesFatal ==
    /\ cpc = "get_server_capabilities"
    /\ \E outcome \in {Returned(JObj(EmptyMap)), Threw} :
          /\ Invoke("get_server_capabilities", JNull, outcome)
          /\ IF outcome.threw
             THEN Exit("1")
             ELSE cpc' = "get_tools" /\ UNCHANGED exitCode
    /\ UNCHANGED <<argv, argi, host, port, srvVars, reqVars>>

\* client.get_server_capabilities(), in its own try block.
GetServerCapabilities ==
    /\ cpc = "get_server_capabilities"
    /\ \E outcome \in {Returned(JObj(EmptyMap)), Threw} :
          Invoke("get_server_capabilities", JNull, outcome)
    /\ cpc' = "get_tools"
    /\ UNCHANGED <<argv, argi, host, port, exitCode, srvVars, reqVars>>

\* client.get_tools(), in its own try block.
GetTools ==
    /\ cpc = "get_tools"
    /\ \E outcome \in {Returned(t) : t \in ToolLists} \cup {Threw} :
          /\ Invoke("get_tools", JNull, outcome)
          /\ cpc' = IF ~outcome.threw /\ outcome.value.a # <<>>
                    THEN "call_tool" ELSE "list_resources"
    /\ UNCHANGED <<argv, argi, host, port, exitCode, srvVars, reqVars>>

\* tool_args for the first tool: filled for echo and greeting, else null.
ToolArgs(name) ==
    IF name = "echo"
    THEN Object(<< KV("text", JStr("Hello from network client!")) >>)
    ELSE IF name = "greeting"
    THEN Object(<< KV("name", JStr("NetworkClient")) >>)
    ELSE JNull

\* client.call_tool(first_tool.name, tool_args), in its own try block.
CallTool ==
    /\ cpc = "call_tool"
    /\ LET first_tool == LastValue.a[1]
           name == first_tool.o["name"].s
       IN  \E outcome \in {Returned(JObj(EmptyMap)), Threw} :
             Invoke("call_tool", JArr(<<JStr(name), ToolArgs(name)>>), outcome)
    /\ cpc' = "list_resources"
    /\ UNCHANGED <<argv, argi, host, port, exitCode, srvVars, reqVars>>

\* Whether main goes on to read the first resource of a list_resources result.
\* A "uri" that is not a string throws in the conversion, inside the try block.
HasFirstUri(resources) ==
    /\ Contains(resources, "resources")
    /\ resources.o["resources"].t = "array"
    /\ resources.o["resources"].a # <<>>
    /\ Contains(resources.o["resources"].a[1], "uri")
    /\ resources.o["resources"].a[1].o["uri"].t = "string"

\* client.list_resources(), in its own try block.
ListResources ==
    /\ cpc = "list_resources"
    /\ \E outcome \in {Returned(r) : r \in ResourceLists} \cup {Threw} :
          /\ Invoke("list_resources", JNull, outcome)
          /\ cpc' = IF ~outcome.threw /\ HasFirstUri(outcome.value)
                    THEN "read_resource" ELSE "finish"
    /\ UNCHANGED <<argv, argi, host, port, exitCode, srvVars, reqVars>>

\* client.read_resource(uri), in its own try block.
ReadResource ==
    /\ cpc = "read_resource"
    /\ \E outcome \in {Returned(JObj(EmptyMap)), Threw} :
          Invoke("read_resource", LastValue.o["resources"].a[1].o["uri"], outcome)
    /\ cpc' = "finish"
    /\ UNCHANGED <<argv, argi, host, port, exitCode, srvVars, reqVars>>

\* The end of the try block: return 0.
Finish ==
    /\ cpc = "finish"
    /\ Exit("0")
    /\ UNCHANGED <<argv, argi, host, port, calls, results, srvVars, reqVars>>

NextClient ==
    \/ ParseArg
    \/ Construct
    \/ Initialize
    \/ Ping
    \/ GetServerCapabilities
    \/ GetTools
    \/ CallTool
    \/ ListResources
    \/ ReadResource
    \/ Finish

SpecClient == InitClient /\ [][NextClient]_vars

-----------------------------------------------------------------------------
(* Reading a record and a reply, for the properties below *)

TypeNames == { "null", "boolean", "number", "string", "array", "object" }

\* The what() texts of the exceptions process_request can catch.
Whats ==
    { ParseErrorWhat }
    \cup { "[json.exception.type_error.306] cannot use value() with " \o t :
             t \in TypeNames }
    \cup { "[json.exception.type_error.302] type must be string, but is " \o t :
             t \in TypeNames }

StartsWith(str, prefix) == \E w \in Whats : str = prefix \o w

IsJson(str) == ~Parse(str).thrown
Json(str) == Parse(str).v

\* "jsonrpc":"2.0" in a JSON object
IsJsonRpc2(j) ==
    j.t = "object" /\ "jsonrpc" \in DOMAIN j.o /\ j.o["jsonrpc"] = JStr("2.0")

HasMethodName(j) == "method" \in DOMAIN j.o /\ j.o["method"].t = "string"
HasId(j) == "id" \in DOMAIN j.o
HasRequestId(j) == HasId(j) /\ j.o["id"].t \in {"number", "string"}

IsNotification(j) == IsJsonRpc2(j) /\ HasMethodName(j) /\ ~HasId(j)
IsRequest(j) == IsJsonRpc2(j) /\ HasMethodName(j) /\ HasRequestId(j)

\* One record on the wire: non-empty and without a newline in it.
IsOneRecord(str) == str # <<>> /\ \A i \in 1..Len(str) : str[i] # NL

\* A Response object: jsonrpc, id and exactly one of result and error.
IsResponse(j) ==
    /\ IsJsonRpc2(j)
    /\ HasId(j)
    /\ DOMAIN j.o \in { {"jsonrpc", "id", "result"}, {"jsonrpc", "id", "error"} }

IsErrorResponse(j, code) ==
    /\ IsResponse(j)
    /\ "error" \in DOMAIN j.o
    /\ j.o["error"].t = "object"
    /\ DOMAIN j.o["error"].o = {"code", "message"}
    /\ j.o["error"].o["code"] = JInt(code)
    /\ j.o["error"].o["message"].t = "string"

ErrorMessage(j) == j.o["error"].o["message"].s

ImplementedMethods ==
    { "initialize", "ping", "tools/list", "tools/call", "resources/list" }

-----------------------------------------------------------------------------
(* Properties of process_request, under SpecRequest *)

\* C1: a Notification (jsonrpc 2.0, a method name, no id) is never answered:
\* process_request returns the empty string for it, whatever the method.
C1_NotificationNotAnswered ==
    (called /\ IsJson(request_str) /\ IsNotification(Json(request_str)))
        => response = <<>>

\* C2: a Request (jsonrpc 2.0, a method name, an integer or string id) gets
\* exactly one Response, with the request's id and one of result and error.
C2_RequestAnsweredOnce ==
    (called /\ IsJson(request_str) /\ IsRequest(Json(request_str)))
        => /\ IsOneRecord(response)
           /\ IsJson(response)
           /\ IsResponse(Json(response))
           /\ Json(response).o["id"] = Json(request_str).o["id"]

\* C6: a Request whose method is none of initialize, ping, tools/list,
\* tools/call, resources/list gets the error -32601 "Method not found: <method>"
\* with the request's id.
C6_UnknownMethodNotFound ==
    (called /\ IsJson(request_str) /\ IsRequest(Json(request_str))
        /\ Json(request_str).o["method"].s \notin ImplementedMethods)
        => /\ IsJson(response)
           /\ IsErrorResponse(Json(response), -32601)
           /\ Json(response).o["id"] = Json(request_str).o["id"]
           /\ ErrorMessage(Json(response))
                = "Method not found: " \o Json(request_str).o["method"].s

C8_MalformedAnswered ==
    (called /\ IsJson(request_str) /\ Json(request_str).t = "object"
        /\ ~IsJsonRpc2(Json(request_str)))
        => IF HasId(Json(request_str))
           THEN /\ IsJson(response)
                /\ IsErrorResponse(Json(response), -32600)
                /\ Json(response).o["id"] = Json(request_str).o["id"]
           ELSE response = <<>>

\* C9: a Request that is valid JSON never gets the error -32700 with id null:
\* when its processing fails the error carries the request's id and the code
\* -32603 or -32602.
C9_HandlerFailureKeepsId ==
    (called /\ IsJson(request_str) /\ IsJsonRpc2(Json(request_str))
        /\ "method" \in DOMAIN Json(request_str).o /\ HasRequestId(Json(request_str))
        /\ IsJson(response) /\ IsResponse(Json(response))
        /\ "error" \in DOMAIN Json(response).o
        /\ Json(response).o["error"].o["code"] # JInt(-32601))
        => /\ Json(response).o["id"] = Json(request_str).o["id"]
           /\ Json(response).o["error"].o["code"] \in {JInt(-32603), JInt(-32602)}

-----------------------------------------------------------------------------
(* Properties of a connection, under SpecSession *)

LineIsRequest(c, k, methods) ==
    /\ IsJson(lines[c][k])
    /\ IsRequest(Json(lines[c][k]))
    /\ Json(lines[c][k]).o["method"].s \in methods

\* The reply to the k-th record of client c is a Response with a result.
IsSuccess(c, k) ==
    /\ replies[c][k] # <<>>
    /\ IsJson(replies[c][k])
    /\ IsResponse(Json(replies[c][k]))
    /\ "result" \in DOMAIN Json(replies[c][k]).o

InitializeAnswered(c, j) ==
    LineIsRequest(c, j, {"initialize"}) /\ IsSuccess(c, j)

\* C3: before an initialize request has been answered on a connection, no
\* ping, tools/list, tools/call or resources/list request on it is answered
\* with a result.
C3_NothingBeforeInitialize ==
    \A c \in Clients : \A k \in 1..Len(lines[c]) :
        ( /\ LineIsRequest(c, k, {"ping", "tools/list", "tools/call",
                                  "resources/list"})
          /\ ~ \E j \in 1..(k - 1) : InitializeAnswered(c, j) )
        => ~IsSuccess(c, k)

\* C4: once an initialize request has been answered with a result on a
\* connection, a further initialize request on it is not.
C4_InitializeOnlyOnce ==
    \A c \in Clients : \A k \in 1..Len(lines[c]) : \A j \in 1..(k - 1) :
        (InitializeAnswered(c, j) /\ LineIsRequest(c, k, {"initialize"}))
        => ~IsSuccess(c, k)

-----------------------------------------------------------------------------
(* Properties of the reference client, under SpecClient *)

AfterInitialize ==
    { "ping", "get_tools", "call_tool", "list_resources", "read_resource" }

InitializeReturnedTrue(j) ==
    calls[j].op = "initialize" /\ results[j] = Returned(JBool(TRUE))

\* C5: ping, get_tools, call_tool, list_resources and read_resource are invoked
\* only after initialize returned true; when initialize returns false or
\* throws, it is the last operation invoked and the process has ended.
C5_InitializeFirst ==
    /\ \A k \in 1..Len(calls) :
         calls[k].op \in AfterInitialize
            => \E j \in 1..(k - 1) : InitializeReturnedTrue(j)
    /\ \A j \in 1..Len(calls) :
         (calls[j].op = "initialize" /\ ~InitializeReturnedTrue(j))
            => j = Len(calls) /\ cpc = "done" /\ exitCode # "running"

\* C5 witness: a run that went from initialize through to read_resource.
C5_Witness ==
    /\ cpc = "done"
    /\ \E k \in 1..Len(calls) : calls[k].op = "read_resource"
    /\ \E j \in 1..Len(calls) : InitializeReturnedTrue(j)

-----------------------------------------------------------------------------
(* Framing, under SpecFraming *)

\* The records of a byte stream, read off the stream byte by byte: the
\* non-empty segments that a newline ends, and the bytes after the last newline.
RECURSIVE Scan(_, _, _, _)
Scan(stream, i, cur, acc) ==
    IF i > Len(stream) THEN [records |-> acc, partial |-> cur]
    ELSE IF stream[i] = NL
         THEN Scan(stream, i + 1, <<>>, IF cur = <<>> THEN acc ELSE Append(acc, cur))
    ELSE Scan(stream, i + 1, Append(cur, stream[i]), acc)

Framed(stream) == Scan(stream, 1, <<>>, <<>>)

Received(c) == SubSeq(peer[c], 1, rcvd[c])

\* C10: however recv cuts the stream, the records passed to process_request,
\* followed by those still to be cut off data_buffer, are the non-empty
\* newline-ended segments of the bytes received, in order; the bytes after the
\* last newline stay in data_buffer; and whenever handle_client is back at
\* recv every such segment has been passed and data_buffer holds that tail.
C10_FramingIgnoresChunks ==
    \A c \in Clients :
        /\ lines[c] \o Framed(data_buffer[c]).records = Framed(Received(c)).records
        /\ Framed(data_buffer[c]).partial = Framed(Received(c)).partial
        /\ conn[c] \in {"recv", "left", "closed"}
             => /\ lines[c] = Framed(Received(c)).records
                /\ data_buffer[c] = Framed(Received(c)).partial

\* C10 witness: an empty record was dropped, two records were passed on, and
\* a partial record waits in data_buffer for bytes still to come.
C10_Witness ==
    \E c \in Clients :
        /\ conn[c] = "recv"
        /\ peer[c] # <<>>
        /\ peer[c][1] = NL
        /\ Len(lines[c]) = 2
        /\ lines[c][1] # lines[c][2]
        /\ data_buffer[c] # <<>>
        /\ rcvd[c] = Len(peer[c])

-----------------------------------------------------------------------------
(* A bad record and the session, under SpecSession *)

\* The k-th record of client c was a bad one: not JSON, without "jsonrpc":"2.0",
\* or answered with an error.
IsBadRecord(c, k) ==
    \/ ~IsJson(lines[c][k])
    \/ ~IsJsonRpc2(Json(lines[c][k]))
    \/ /\ replies[c][k] # <<>>
       /\ IsJson(replies[c][k])
       /\ "error" \in DOMAIN Json(replies[c][k]).o

-----------------------------------------------------------------------------
(* More properties of process_request, under SpecRequest *)

\* C12: a record that is a JSON array (a batch) is answered with an error
\* Response of code -32600.
C12_BatchRejected ==
    (called /\ IsJson(request_str) /\ Json(request_str).t = "array")
        => /\ IsJson(response)
           /\ IsErrorResponse(Json(response), -32600)

\* The params of a tools/call Request that has both name (a string) and
\* arguments.
ToolsCallParams(j) == j.o["params"]

IsToolsCall(j) ==
    /\ IsRequest(j)
    /\ j.o["method"].s = "tools/call"
    /\ "params" \in DOMAIN j.o
    /\ ToolsCallParams(j).t = "object"
    /\ {"name", "arguments"} \subseteq DOMAIN ToolsCallParams(j).o
    /\ ToolsCallParams(j).o["name"].t = "string"

\* arguments.text of a tools/call Request when it is a string or absent.
HasEchoText(j) ==
    LET arguments == ToolsCallParams(j).o["arguments"]
    IN  /\ arguments.t = "object"
        /\ "text" \in DOMAIN arguments.o => arguments.o["text"].t = "string"

EchoText(j) ==
    LET arguments == ToolsCallParams(j).o["arguments"]
    IN  IF "text" \in DOMAIN arguments.o THEN arguments.o["text"].s ELSE ""

\* C13: a tools/call Request with id i and params {name, arguments}: for name
\* "echo" and arguments.text a string t ("" when absent) the Response has id i
\* and result {"content":[{"type":"text","text":"Echo: "+t}]}; for a name that
\* is neither "echo" nor "time" it has id i and the error -32601
\* "Method not found: <name>".
C13_ToolsCall ==
    (called /\ IsJson(request_str) /\ IsToolsCall(Json(request_str)))
        => LET j == Json(request_str)
               name == ToolsCallParams(j).o["name"].s
           IN  /\ (name = "echo" /\ HasEchoText(j))
                    => /\ IsOneRecord(response)
                       /\ IsJson(response)
                       /\ IsResponse(Json(response))
                       /\ Json(response).o["id"] = j.o["id"]
                       /\ "result" \in DOMAIN Json(response).o
                       /\ Json(response).o["result"]
                            = Object(<< KV("content", JArr(<<
                                 Object(<< KV("type", JStr("text")),
                                           KV("text", JStr("Echo: " \o EchoText(j))) >>)
                               >>)) >>)
               /\ name \notin {"echo", "time"}
                    => /\ IsOneRecord(response)
                       /\ IsJson(response)
                       /\ IsErrorResponse(Json(response), -32601)
                       /\ Json(response).o["id"] = j.o["id"]
                       /\ ErrorMessage(Json(response)) = "Method not found: " \o name

\* C13 witness: a tools/call of echo with the text "Hello" has been answered.
C13_Witness ==
    /\ called
    /\ IsJson(request_str)
    /\ IsToolsCall(Json(request_str))
    /\ ToolsCallParams(Json(request_str)).o["name"].s = "echo"
    /\ HasEchoText(Json(request_str))
    /\ EchoText(Json(request_str)) = "Hello"
    /\ response # <<>>

\* C18: an inbound Response (jsonrpc 2.0, an id, a result or an error, no
\* method) is never answered: process_request returns the empty string.
C18_ResponseNotAnswered ==
    (called /\ IsJson(request_str) /\ IsResponse(Json(request_str)))
        => response = <<>>

-----------------------------------------------------------------------------
(* More properties of the reference client, under SpecClient *)

\* The argument loop stopped at an argument it does not accept: an unknown
\* word, an option without its value, or a port that is not a number.
ArgumentRejected ==
    /\ cpc = "done"
    /\ calls = <<>>
    /\ argi <= Len(argv)
    /\ argv[argi] # "--help"

\* An exception reached the catch at the end of main: it came from the
\* constructor, initialize or ping, which have no try block of their own.
TopLevelException ==
    /\ calls # <<>>
    /\ calls[Len(calls)].op \in {"stdio_client", "initialize", "ping"}
    /\ results[Len(results)].threw

\* C14: every run of main ends with exit code 0 or 1, and with 1 whenever an
\* argument is rejected, initialize returns false, or an exception reaches the
\* top level.
C14_ExitZeroOrOne ==
    /\ exitCode \in {"running", "0", "1"}
    /\ cpc = "done" <=> exitCode # "running"
    /\ ArgumentRejected => exitCode = "1"
    /\ (\E j \in 1..Len(calls) :
          calls[j].op = "initialize" /\ results[j] = Returned(JBool(FALSE)))
         => exitCode = "1"
    /\ TopLevelException => exitCode = "1"

\* The place of each facade operation in the order of main.
Rank ==
    [ op \in { "ping", "get_server_capabilities", "get_tools", "call_tool",
               "list_resources", "read_resource" } |->
        CASE op = "ping" -> 1
          [] op = "get_server_capabilities" -> 2
          [] op = "get_tools" -> 3
          [] op = "call_tool" -> 4
          [] op = "list_resources" -> 5
          [] op = "read_resource" -> 6 ]

\* The facade operations are invoked after a successful initialize, in the
\* order of main, each at most once.
InFixedOrder ==
    /\ \A k \in 1..Len(calls) :
         calls[k].op \in DOMAIN Rank
            => \E j \in 1..(k - 1) : InitializeReturnedTrue(j)
    /\ \A j \in 1..Len(calls) : \A k \in (j + 1)..Len(calls) :
         (calls[j].op \in DOMAIN Rank /\ calls[k].op \in DOMAIN Rank)
            => Rank[calls[j].op] < Rank[calls[k].op]

\* call_tool is invoked only right after a get_tools that returned a
\* non-empty list, and for the first tool of that list.
CallToolOnlyFirstTool ==
    \A k \in 1..Len(calls) :
        calls[k].op = "call_tool"
           => /\ k > 1
              /\ calls[k - 1].op = "get_tools"
              /\ ~results[k - 1].threw
              /\ results[k - 1].value.a # <<>>
              /\ calls[k].arg.a[1] = results[k - 1].value.a[1].o["name"]

\* read_resource is invoked only right after a list_resources whose result has
\* a non-empty "resources" array with a "uri" in its first element, and for
\* that uri.
ReadResourceOnlyFirstUri ==
    \A k \in 1..Len(calls) :
        calls[k].op = "read_resource"
           => /\ k > 1
              /\ calls[k - 1].op = "list_resources"
              /\ ~results[k - 1].threw
              /\ LET r == results[k - 1].value
                 IN  /\ r.t = "object"
                     /\ "resources" \in DOMAIN r.o
                     /\ r.o["resources"].t = "array"
                     /\ r.o["resources"].a # <<>>
                     /\ r.o["resources"].a[1].t = "object"
                     /\ "uri" \in DOMAIN r.o["resources"].a[1].o
                     /\ calls[k].arg = r.o["resources"].a[1].o["uri"]

\* With the result the reference server gives for resources/list,
\* read_resource is not invoked.
NoReadAgainstReferenceServer ==
    \A j \in 1..Len(calls) :
        (calls[j].op = "list_resources" /\ results[j] = Returned(ResourcesListResult))
           => \A k \in 1..Len(calls) : calls[k].op # "read_resource"

PingThrew ==
    \E j \in 1..Len(calls) : calls[j].op = "ping" /\ results[j].threw

\* main has run ping, get_server_capabilities, get_tools and list_resources,
\* and returned 0.
RanToTheEnd ==
    /\ exitCode = "0"
    /\ \A op \in {"ping", "get_server_capabilities", "get_tools", "list_resources"} :
         \E k \in 1..Len(calls) : calls[k].op = op

\* C20, as stated: after a successful initialize the facade operations are
\* attempted in the fixed order, no failure of one of them prevents the later
\* ones, call_tool and read_resource are invoked at most once and only for the
\* first tool and the first uri, and read_resource is not invoked against the
\* reference server's resources/list result.
C20_FailureNeverPrevents ==
    /\ InFixedOrder
    /\ CallToolOnlyFirstTool
    /\ ReadResourceOnlyFirstUri
    /\ NoReadAgainstReferenceServer
    /\ (cpc = "done" /\ \E j \in 1..Len(calls) : InitializeReturnedTrue(j))
         => RanToTheEnd

\* C20, amended: as above, but only a ping that returns false, and a failure
\* of the operations after ping, leave the later operations to run; an
\* exception thrown by ping is the last thing that happens, and main returns 1.
C20_FixedOrder ==
    /\ InFixedOrder
    /\ CallToolOnlyFirstTool
    /\ ReadResourceOnlyFirstUri
    /\ NoReadAgainstReferenceServer
    /\ (cpc = "done" /\ \E j \in 1..Len(calls) : InitializeReturnedTrue(j))
         => IF PingThrew
            THEN calls[Len(calls)].op = "ping" /\ exitCode = "1"
            ELSE RanToTheEnd

\* C20 witness: ping returned false, get_server_capabilities and call_tool
\* threw, and read_resource was still invoked before main returned 0.
C20_Witness ==
    /\ cpc = "done"
    /\ exitCode = "0"
    /\ \E k \in 1..Len(calls) :
         calls[k].op = "ping" /\ results[k] = Returned(JBool(FALSE))
    /\ \E k \in 1..Len(calls) :
         calls[k].op = "get_server_capabilities" /\ results[k].threw
    /\ \E k \in 1..Len(calls) : calls[k].op = "call_tool" /\ results[k].threw
    /\ \E k \in 1..Len(calls) : calls[k].op = "read_resource"

-----------------------------------------------------------------------------
(* What goes out on a connection, under SpecSession *)

\* The bytes of the responses of a list of replies, in order: each non-empty
\* reply followed by one newline.
RECURSIVE Outgoing(_)
Outgoing(rs) ==
    IF rs = <<>> THEN <<>>
    ELSE (IF rs[1] = <<>> THEN <<>> ELSE rs[1] \o <<NL>>) \o Outgoing(Tail(rs))

IsPrefix(a, b) == Len(a) <= Len(b) /\ a = SubSeq(b, 1, Len(a))

\* C15: on a connection the responses go to send in the order of the records
\* that caused them, the k-th before the (k+1)-th record is processed, each
\* followed by exactly one newline: every processed record has its reply, a
\* reply holds no newline, the bytes the socket took are a prefix of the
\* replies in order with their newlines, and all of them while no send failed.
C15_ResponsesInOrder ==
    \A c \in Clients :
        /\ Len(replies[c]) = Len(lines[c])
        /\ \A k \in 1..Len(replies[c]) :
             replies[c][k] # <<>> => IsOneRecord(replies[c][k])
        /\ IsPrefix(wire[c], Outgoing(replies[c]))
        /\ ~broken[c] => wire[c] = Outgoing(replies[c])

\* C15 witness: two different responses have gone out on a sound connection.
C15_Witness ==
    \E c \in Clients :
        /\ ~broken[c]
        /\ Len(replies[c]) = 2
        /\ replies[c][1] # <<>>
        /\ replies[c][2] # <<>>
        /\ replies[c][1] # replies[c][2]
        /\ wire[c] = replies[c][1] \o <<NL>> \o replies[c][2] \o <<NL>>

\* C17: every response reaches the stream whole or not at all, and a failed
\* send ends the session: the bytes the socket took are whole records, and
\* after a failed send handle_client processes no further record.
C17_AllOrNothing ==
    \A c \in Clients :
        /\ \E m \in 0..Len(replies[c]) :
             wire[c] = Outgoing(SubSeq(replies[c], 1, m))
        /\ broken[c] => (conn[c] \in {"left", "closed"} \/ spc = "killed")

-----------------------------------------------------------------------------
(* Several connections at once, under Spec and SpecLive *)

\* C16: with several clients served at once, each connection gets the records
\* of its own stream only and the responses to them only, as if it were served
\* alone, and the closure or send failure of one connection does not stop the
\* server from serving the others: the process does not end while another
\* peer is still connected.
C16_ConnectionsIsolated ==
    /\ \A c \in Clients :
         /\ IsPrefix(lines[c], Framed(peer[c]).records)
         /\ Len(replies[c]) = Len(lines[c])
         /\ \A k \in 1..Len(replies[c]) :
              \E now \in CTimes : replies[c][k] = process_request(lines[c][k], now)
         /\ IsPrefix(wire[c], Outgoing(replies[c]))
    /\ spc = "killed" => \A d \in Clients : peerClosed[d]

\* When ProcessLine(c) can take a step: its two guards; the rest of it assigns,
\* and data_buffer always changes.
ProcessLineEnabled(c) == spc = "run" /\ conn[c] = "lines"

\* The scheduling of the server: the accept loop and every handle_client
\* thread keep taking their steps.  The condition on ProcessLine is
\* WF_vars(ProcessLine(c)) with its enabling condition written out.
Fairness ==
    \A c \in Clients :
        /\ WF_vars(Run(c))
        /\ WF_vars(Recv(c) \/ LeaveLoop(c))
        /\ []<><<ProcessLine(c)>>_vars \/ []<>(~ProcessLineEnabled(c))
        /\ WF_vars(CloseClient(c))

SpecLive == Init /\ [][NextServer]_vars /\ Fairness

\* C19: every accepted connection whose peer closes is eventually closed by
\* its handle_client thread, exactly once, after every complete record
\* received has been processed; and a pending connection is eventually
\* accepted while the server runs.
C19_ClosedOnce ==
    /\ [](\A c \in Clients : closes[c] <= 1)
    /\ \A c \in Clients :
         (peerClosed[c] /\ conn[c] \in {"recv", "lines"})
            ~> ( /\ conn[c] = "closed"
                 /\ closes[c] = 1
                 /\ lines[c] = Framed(Received(c)).records )
    /\ \A c \in Clients :
         (conn[c] = "pending" /\ spc = "run" /\ running_)
            ~> (conn[c] # "pending" \/ spc # "run")

====
